---- MODULE Spec2Model ----
(***************************************************************************)
(* A model of the graph-construction scripts of tweet-analyzer-py:         *)
(*   - BigQueryListGrapher.perform (app/friend_graphs), one or two         *)
(*     grapher processes sharing the local disk and the bucket;            *)
(*   - the daily active user friend grapher script (app/bot_impact_v4);    *)
(*   - split_into_batches (app/friend_collection);                         *)
(*   - RetweetsAnalyzer.generate_most_retweets_chart (app/bot_communities).*)
(***************************************************************************)
EXTENDS Integers, Sequences, FiniteSets, TLC

\* ------------------------------------------------------------------------
\* Bounds of the model
\* ------------------------------------------------------------------------

\* longest user_friends table the warehouse returns
MaxRows == 2

\* most statuses the daily active tweeters query returns
MaxStatuses == 2

\* most rows the daily active user friends query returns
MaxFriendRows == 1

\* runs of the daily script, one after the other
MaxRuns == 2

\* longest list given to split_into_batches
MaxListLen == 4

\* largest batch size given to split_into_batches
MaxBatch == 3

\* most retweets of a community
MaxRetweets == 3

\* largest top_n given to generate_most_retweets_chart
MaxTopN == 3

\* longest user_friends table when two processes run
MaxPairRows == 1

\* largest BATCH_SIZE setting
MaxBatchSize == 2

\* last minute of the wall clock
MaxClock == 1

\* ------------------------------------------------------------------------
\* Values
\* ------------------------------------------------------------------------

\* rows of the user_friends table: a screen name and the list of friend names
RowValues ==
  { [screen_name |-> "u1", friend_names |-> <<"u2">>],
    [screen_name |-> "u2", friend_names |-> <<"u1", "u3">>],
    [screen_name |-> "u3", friend_names |-> <<>>] }

SeqsUpTo(S, n) == UNION { [1..k -> S] : k \in 0..n }

Artifacts == {"metadata.json", "results.csv", "edges.gpickle", "graph.gpickle"}

\* job_id before the grapher object exists
NoJob == 0 - 1

EmptyGraph == [nodes |-> {}, edges |-> {}]

VARIABLES
  table,         \* the rows the warehouse returns for the user friends query
  now,           \* wall clock, in minutes
  grapher,       \* per process: the grapher object and the position of its run
  local_files,   \* local disk: path -> <<content>>, or <<>> for a truncated file
  bucket,        \* remote bucket: path -> <<content>>
  trace,         \* per process: history of the run (events, writes, uploads)
  warehouse,     \* what the daily active tweeter queries return
  script,        \* the daily active user friend grapher script and its position
  run,           \* history of the current run of the script
  batching,      \* a call of split_into_batches: the generator and what it yielded
  analyzer       \* a RetweetsAnalyzer: its retweets and the chart it generated

vars == <<table, now, grapher, local_files, bucket, trace, warehouse, script, run,
          batching, analyzer>>

\* the variables of split_into_batches and of the RetweetsAnalyzer
callVars == <<batching, analyzer>>

\* the variables of the daily active user friend grapher
dailyVars == <<warehouse, script, run>>

\* the variables of the grapher processes
grapherVars == <<table, now, grapher, trace>>

\* ------------------------------------------------------------------------
\* Helpers
\* ------------------------------------------------------------------------

Put(f, k, v) == [q \in (DOMAIN f) \cup {k} |-> IF q = k THEN v ELSE f[q]]

Range(s) == { s[i] : i \in 1..Len(s) }

\* dt.now().strftime("%Y-%m-%d-%H%M"): the clock at minute resolution
JobIdFromClock(t) == t

\* os.path.join(dirpath, name) for the local directory and for the bucket
Path(job_id, artifact) == <<job_id, artifact>>

\* a comprehension that pairs each friend with the row's screen name, reversed
RowEdgesReversed(row) ==
  [i \in 1..Len(row.friend_names) |-> <<row.friend_names[i], row.screen_name>>]

\* [(row["screen_name"], friend) for friend in row["friend_names"]]
RowEdges(row) ==
  [i \in 1..Len(row.friend_names) |-> <<row.screen_name, row.friend_names[i]>>]

\* networkx DiGraph(edges): every endpoint becomes a node, parallel edges merge
DiGraph(es) ==
  [nodes |-> { es[i][1] : i \in 1..Len(es) } \cup { es[i][2] : i \in 1..Len(es) },
   edges |-> Range(es)]

\* BaseGrapher.metadata
Metadata(self) ==
  [job_id |-> self.job_id, dry_run |-> self.dry_run, batch_size |-> self.batch_size]

\* ------------------------------------------------------------------------
\* BigQueryListGrapher (bq_list_grapher.py) over BaseGrapher (base_grapher.py)
\* ------------------------------------------------------------------------

\* perform with the graph constructed before the edges are written
PerformStepsGraphFirst ==
  << "start", "write_metadata", "upload_metadata", "fetch",
     "write_results", "upload_results", "construct_graph", "write_edges",
     "upload_edges", "write_graph", "upload_graph", "end" >>

\* the statements of perform, in program order
PerformSteps ==
  << "start", "write_metadata", "upload_metadata", "fetch",
     "write_results", "upload_results", "write_edges", "upload_edges",
     "construct_graph", "write_graph", "upload_graph", "end" >>

IndexOf(step) == CHOOSE i \in 1..Len(PerformSteps) : PerformSteps[i] = step

\* the statement that follows a statement of perform that returned normally
Following(step) ==
  IF IndexOf(step) = Len(PerformSteps) THEN "done"
  ELSE PerformSteps[IndexOf(step) + 1]

\* a perform that runs the failed statement again
RaisedRetry(step) == step

\* an exception raised in perform is caught nowhere: the process ends
Raised(step) == "failed"

Then(step, ok) == IF ok THEN Following(step) ELSE Raised(step)

\* the outcomes of open(path, "w") followed by a dump: written in full, cut
\* short by an exception after the file was truncated, or not opened at all
WriteOutcomes == {"ok", "truncated", "error"}

CallOutcomes == {"ok", "error"}

WriteFile(files, path, data, outcome) ==
  IF outcome = "ok" THEN Put(files, path, <<data>>)
  ELSE IF outcome = "truncated" THEN Put(files, path, <<>>)
  ELSE files

Log(p, step) == [trace EXCEPT ![p].events = Append(@, step)]

LogWrite(p, step, artifact, data, outcome) ==
  [trace EXCEPT ![p].events = Append(@, step),
                ![p].wrote = WriteFile(@, artifact, data, outcome)]

LogUpload(p, step, artifact, ok) ==
  [trace EXCEPT ![p].events = Append(@, step),
                ![p].uploaded = IF ok THEN @ \cup {artifact} ELSE @]

\* a write_*_to_file method
WriteStep(p, step, artifact, data) ==
  /\ grapher[p].pc = step
  /\ \E outcome \in WriteOutcomes :
       /\ local_files' = WriteFile(local_files, Path(grapher[p].job_id, artifact),
                                   data, outcome)
       /\ grapher' = [grapher EXCEPT ![p].pc = Then(step, outcome = "ok")]
       /\ trace' = LogWrite(p, step, artifact, data, outcome)
  /\ UNCHANGED <<table, now, bucket>>

\* an upload_* method: gcs_service.upload(local_filepath, gcs_filepath)
UploadStep(p, step, artifact) ==
  LET path == Path(grapher[p].job_id, artifact) IN
  /\ grapher[p].pc = step
  /\ \E outcome \in CallOutcomes :
       LET ok == outcome = "ok" /\ path \in DOMAIN local_files IN
       /\ bucket' = IF ok THEN Put(bucket, path, local_files[path]) ELSE bucket
       /\ grapher' = [grapher EXCEPT ![p].pc = Then(step, ok)]
       /\ trace' = LogUpload(p, step, artifact, ok)
  /\ UNCHANGED <<table, now, local_files>>

\* BaseGrapher.cautiously_initialized: __init__ with the default job_id
cautiously_initialized(p) ==
  /\ grapher[p].pc = "new"
  /\ grapher' = [grapher EXCEPT ![p].pc = "start",
                                ![p].job_id = JobIdFromClock(now)]
  /\ UNCHANGED <<table, now, local_files, bucket, trace>>

\* BaseGrapher.start, the first statement of perform
start(p) ==
  /\ grapher[p].pc = "start"
  /\ grapher' = [grapher EXCEPT ![p].pc = Then("start", TRUE),
                                ![p].counter = 0,
                                ![p].attrs = @ \cup {"counter"}]
  /\ trace' = Log(p, "start")
  /\ UNCHANGED <<table, now, local_files, bucket>>

write_metadata_to_file(p) ==
  WriteStep(p, "write_metadata", "metadata.json", Metadata(grapher[p]))

upload_metadata(p) == UploadStep(p, "upload_metadata", "metadata.json")

\* where the loop goes once the generator is at position cursor
LoopOrExit(cursor) == IF cursor < Len(table) THEN "loop" ELSE Following("fetch")

\* self.edges = []; self.running_results = []; the call of
\* bq_service.fetch_user_friends_in_batches
fetch_user_friends_in_batches(p) ==
  /\ grapher[p].pc = "fetch"
  /\ \E outcome \in CallOutcomes :
       grapher' = [grapher EXCEPT
         ![p].edges = <<>>,
         ![p].running_results = <<>>,
         ![p].attrs = @ \cup {"edges", "running_results"},
         ![p].cursor = 0,
         ![p].pc = IF outcome = "ok" THEN LoopOrExit(0) ELSE Raised("fetch")]
  /\ trace' = Log(p, "fetch")
  /\ UNCHANGED <<table, now, local_files, bucket>>

\* a loop that collects the edges of the reported rows only
EdgesAfterRowBatched(self, row) ==
  IF ~ self.dry_run /\ (self.batch_size = 0 \/ self.counter % self.batch_size = 0)
  THEN self.edges \o RowEdges(row) ELSE self.edges

\* self.edges after the row, from the grapher as it is after counter += 1
EdgesAfterRow(self, row) ==
  IF ~ self.dry_run THEN self.edges \o RowEdges(row) ELSE self.edges

\* a report decided on the position of the row, counted from 0
ReportDueFromZero(self) == self.cursor % self.batch_size = 0

\* if self.counter % self.batch_size == 0 (batch_size is not 0)
ReportDue(self) == self.counter % self.batch_size = 0

\* rr = {"ts": ..., "counter": self.counter, "edges": len(self.edges)}
RunningResult(self) == [counter |-> self.counter, edges |-> Len(self.edges)]

\* one iteration of the for loop of perform
loop(p) ==
  /\ grapher[p].pc = "loop"
  /\ \E outcome \in CallOutcomes :
       LET self == grapher[p]
           row == table[self.cursor + 1]
           counted == [self EXCEPT !.counter = @ + 1]
           added == [counted EXCEPT !.edges = EdgesAfterRow(counted, row)]
       IN
       grapher' = [grapher EXCEPT ![p] =
         IF outcome = "error" THEN [self EXCEPT !.pc = Raised("fetch")]
         ELSE IF added.batch_size = 0 THEN [added EXCEPT !.pc = Raised("fetch")]
         ELSE [added EXCEPT
                 !.running_results =
                    IF ReportDue(added) THEN Append(@, RunningResult(added)) ELSE @,
                 !.cursor = @ + 1,
                 !.pc = LoopOrExit(self.cursor + 1)]]
  /\ trace' = Log(p, "row")
  /\ UNCHANGED <<table, now, local_files, bucket>>

write_results_to_file(p) ==
  WriteStep(p, "write_results", "results.csv", grapher[p].running_results)

upload_results(p) == UploadStep(p, "upload_results", "results.csv")

write_edges_to_file(p) ==
  WriteStep(p, "write_edges", "edges.gpickle", grapher[p].edges)

upload_edges(p) == UploadStep(p, "upload_edges", "edges.gpickle")

\* self.graph = DiGraph(self.edges); report; del running_results; del edges
construct_graph(p) ==
  /\ grapher[p].pc = "construct_graph"
  /\ \E outcome \in CallOutcomes :
       LET self == grapher[p] IN
       grapher' = [grapher EXCEPT ![p] =
         IF outcome = "error" THEN [self EXCEPT !.pc = Raised("construct_graph")]
         ELSE [self EXCEPT
                 !.graph = DiGraph(self.edges),
                 !.attrs = (@ \cup {"graph"}) \ {"running_results", "edges"},
                 !.edges = <<>>,
                 !.running_results = <<>>,
                 !.pc = Following("construct_graph")]]
  /\ trace' = Log(p, "construct_graph")
  /\ UNCHANGED <<table, now, local_files, bucket>>

write_graph_to_file(p) ==
  WriteStep(p, "write_graph", "graph.gpickle", grapher[p].graph)

upload_graph(p) == UploadStep(p, "upload_graph", "graph.gpickle")

\* BaseGrapher.end, the last statement of perform
end(p) ==
  /\ grapher[p].pc = "end"
  /\ grapher' = [grapher EXCEPT ![p].pc = Then("end", TRUE)]
  /\ trace' = Log(p, "end")
  /\ UNCHANGED <<table, now, local_files, bucket>>

\* a minute passes (the clock is read by __init__ only)
Tick ==
  /\ now < MaxClock
  /\ \E p \in DOMAIN grapher : grapher[p].pc = "new"
  /\ now' = now + 1
  /\ UNCHANGED <<table, grapher, local_files, bucket, trace>>

NewGrapher(dry_run, batch_size) ==
  [pc |-> "new", job_id |-> NoJob, dry_run |-> dry_run, batch_size |-> batch_size,
   attrs |-> {}, counter |-> 0, edges |-> <<>>, running_results |-> <<>>,
   graph |-> EmptyGraph, cursor |-> 0]

NewTrace == [events |-> <<>>, wrote |-> <<>>, uploaded |-> {}]

\* the processes started with DRY_RUN and BATCH_SIZE from the environment
InitGraphers(P, rows) ==
  /\ table \in SeqsUpTo(RowValues, rows)
  /\ now = 0
  /\ grapher \in [P -> { NewGrapher(d, b) : d \in BOOLEAN, b \in 0..MaxBatchSize }]
  /\ local_files = <<>>
  /\ bucket = <<>>
  /\ trace = [p \in P |-> NewTrace]
  /\ warehouse = [statuses |-> <<>>, friends |-> <<>>]
  /\ script = [pc |-> "off"]
  /\ run = <<>>
  /\ batching = <<>>
  /\ analyzer = <<>>

Init == InitGraphers({1}, MaxRows)

InitPair == InitGraphers({1, 2}, MaxPairRows)

Next ==
  /\ UNCHANGED <<dailyVars, callVars>>
  /\ \/ Tick
     \/ \E p \in DOMAIN grapher :
          \/ cautiously_initialized(p)
          \/ start(p)
          \/ write_metadata_to_file(p)
          \/ upload_metadata(p)
          \/ fetch_user_friends_in_batches(p)
          \/ loop(p)
          \/ write_results_to_file(p)
          \/ upload_results(p)
          \/ write_edges_to_file(p)
          \/ upload_edges(p)
          \/ construct_graph(p)
          \/ write_graph_to_file(p)
          \/ upload_graph(p)
          \/ end(p)

\* one grapher process
Spec == Init /\ [][Next]_vars

\* two grapher processes on the same machine and bucket
SpecPair == InitPair /\ [][Next]_vars

\* ------------------------------------------------------------------------
\* The daily active user friend grapher script
\* (bot_impact_v4/daily_active_user_friend_grapher.py)
\* ------------------------------------------------------------------------

\* rows of the daily active tweeter statuses query
StatusValues ==
  { [status_id |-> 1, user_id |-> 11, screen_name |-> "u1", rate |-> 2, bot |-> FALSE],
    [status_id |-> 2, user_id |-> 11, screen_name |-> "u1", rate |-> 2, bot |-> FALSE],
    [status_id |-> 3, user_id |-> 12, screen_name |-> "u2", rate |-> 1, bot |-> TRUE] }

StatusColumns == {"status_id", "user_id", "screen_name", "rate", "bot"}

NodeColumns == {"user_id", "screen_name", "rate", "bot"}

\* os.path.join(storage.local_dirpath, "tweets.csv")
tweets_csv_filepath == <<"daily_active_friend_graphs_v4", "tweets.csv">>

\* os.path.join(storage.local_dirpath, "graph.gpickle")
local_graph_filepath == <<"daily_active_friend_graphs_v4", "graph.gpickle">>

\* os.path.join(storage.gcs_dirpath, "graph.gpickle")
gcs_graph_filepath == <<"daily_active_friend_graphs_v4", "graph.gpickle">>

\* pandas DataFrame(list of dicts): no rows, no columns
DataFrame(rows) ==
  [columns |-> IF rows = <<>> THEN {} ELSE StatusColumns, rows |-> rows]

\* DataFrame.to_csv: the index is written as a first column without a name
ToCsv(df) == [header |-> {""} \cup df.columns, rows |-> df.rows]

\* pandas read_csv: the column without a name comes back as "Unnamed: 0"
ReadCsv(csv) ==
  [columns |-> (csv.header \ {""}) \cup {"Unnamed: 0"}, rows |-> csv.rows]

\* statuses_df[["user_id", "screen_name", "rate", "bot"]]
NodeRow(row) ==
  [user_id |-> row.user_id, screen_name |-> row.screen_name,
   rate |-> row.rate, bot |-> row.bot]

\* DataFrame.drop_duplicates: the first of equal rows is kept
RECURSIVE DropDuplicates(_)
DropDuplicates(rows) ==
  IF rows = <<>> THEN <<>>
  ELSE LET front == DropDuplicates(SubSeq(rows, 1, Len(rows) - 1))
           last == rows[Len(rows)]
       IN IF last \in Range(front) THEN front ELSE Append(front, last)

\* nodes_df of the script
NodesDf(df) == DropDuplicates([i \in 1..Len(df.rows) |-> NodeRow(df.rows[i])])

\* graph.add_node(name, ...)
AddNode(g, name) == [g EXCEPT !.nodes = @ \cup {name}]

\* an add_edges_from that stops after the first edge of the list
AddEdgesFromFirst(g, es) ==
  IF es = <<>> THEN g
  ELSE [nodes |-> g.nodes \cup {es[1][1], es[1][2]}, edges |-> g.edges \cup {es[1]}]

\* graph.add_edges_from(edges): the endpoints become nodes
AddEdgesFrom(g, es) ==
  [nodes |-> g.nodes \cup DiGraph(es).nodes, edges |-> g.edges \cup Range(es)]

\* a tweets.csv condition that forgets DESTRUCTIVE
ShouldLoadTweetsAlways(exists, destructive) == exists

\* if os.path.exists(tweets_csv_filepath) and not DESTRUCTIVE
ShouldLoadTweets(exists, destructive) == exists /\ ~ destructive

\* a graph file condition that forgets GRAPH_DESTRUCTIVE
ShouldLoadGraphAlways(exists, destructive) == exists

\* if os.path.exists(local_graph_filepath) and not GRAPH_DESTRUCTIVE
ShouldLoadGraph(exists, destructive) == exists /\ ~ destructive

Did(event) == run' = [run EXCEPT !.events = Append(@, event)]

\* the script is started, with DESTRUCTIVE and GRAPH_DESTRUCTIVE from the
\* environment (lines 17, 21, 40-44)
run_script ==
  /\ script.pc \in {"idle", "done", "failed"}
  /\ script.runs < MaxRuns
  /\ \E d \in BOOLEAN, gd \in BOOLEAN :
       script' = [pc |-> "tweets", runs |-> script.runs + 1,
                  DESTRUCTIVE |-> d, GRAPH_DESTRUCTIVE |-> gd,
                  statuses |-> <<>>, statuses_df |-> DataFrame(<<>>),
                  nodes_df |-> <<>>, graph |-> EmptyGraph, cursor |-> 0]
  /\ run' = [events |-> <<>>, local_before |-> local_files, bucket_before |-> bucket]
  /\ UNCHANGED <<warehouse, local_files, bucket>>

\* LOAD TWEETS, the branch that reads tweets.csv (lines 49-51)
load_tweets ==
  /\ script.pc = "tweets"
  /\ ShouldLoadTweets(tweets_csv_filepath \in DOMAIN local_files, script.DESTRUCTIVE)
  /\ \E outcome \in CallOutcomes :
       LET ok == outcome = "ok" /\ local_files[tweets_csv_filepath] # <<>> IN
       script' = IF ok
                 THEN [script EXCEPT !.pc = "graph",
                         !.statuses_df = ReadCsv(local_files[tweets_csv_filepath][1])]
                 ELSE [script EXCEPT !.pc = "failed"]
  /\ Did("read_csv")
  /\ UNCHANGED <<warehouse, local_files, bucket>>

\* LOAD TWEETS, the branch that downloads: the query is issued (lines 53-56)
download_tweets ==
  /\ script.pc = "tweets"
  /\ ~ ShouldLoadTweets(tweets_csv_filepath \in DOMAIN local_files, script.DESTRUCTIVE)
  /\ \E outcome \in CallOutcomes :
       script' = [script EXCEPT
         !.statuses = <<>>, !.cursor = 0,
         !.pc = IF outcome = "error" THEN "failed"
                ELSE IF warehouse.statuses = <<>> THEN "to_csv" ELSE "statuses_loop"]
  /\ Did("fetch_statuses")
  /\ UNCHANGED <<warehouse, local_files, bucket>>

\* one iteration of the statuses loop (lines 56-61)
append_status ==
  /\ script.pc = "statuses_loop"
  /\ \E outcome \in CallOutcomes :
       script' = IF outcome = "error" THEN [script EXCEPT !.pc = "failed"]
                 ELSE [script EXCEPT
                         !.statuses = Append(@, warehouse.statuses[script.cursor + 1]),
                         !.cursor = @ + 1,
                         !.pc = IF script.cursor + 1 < Len(warehouse.statuses)
                                THEN "statuses_loop" ELSE "to_csv"]
  /\ Did("status_row")
  /\ UNCHANGED <<warehouse, local_files, bucket>>

\* statuses_df = DataFrame(statuses); del statuses; to_csv (lines 64-66)
to_csv ==
  /\ script.pc = "to_csv"
  /\ \E outcome \in WriteOutcomes :
       /\ local_files' = WriteFile(local_files, tweets_csv_filepath,
                                   ToCsv(DataFrame(script.statuses)), outcome)
       /\ script' = [script EXCEPT
            !.statuses_df = DataFrame(script.statuses),
            !.statuses = <<>>,
            !.pc = IF outcome = "ok" THEN "graph" ELSE "failed"]
  /\ Did("to_csv")
  /\ UNCHANGED <<warehouse, bucket>>

\* MAKE GRAPH, the branch that reads graph.gpickle (lines 75-78)
load_graph ==
  /\ script.pc = "graph"
  /\ ShouldLoadGraph(local_graph_filepath \in DOMAIN local_files, script.GRAPH_DESTRUCTIVE)
  /\ \E outcome \in CallOutcomes :
       LET ok == outcome = "ok" /\ local_files[local_graph_filepath] # <<>> IN
       script' = IF ok
                 THEN [script EXCEPT !.pc = "done",
                         !.graph = local_files[local_graph_filepath][1]]
                 ELSE [script EXCEPT !.pc = "failed"]
  /\ Did("read_gpickle")
  /\ UNCHANGED <<warehouse, local_files, bucket>>

\* MAKE GRAPH, the branch that builds: nodes_df and graph = DiGraph()
\* (lines 80-90); selecting the node columns raises when they are missing
create_graph ==
  /\ script.pc = "graph"
  /\ ~ ShouldLoadGraph(local_graph_filepath \in DOMAIN local_files, script.GRAPH_DESTRUCTIVE)
  /\ \E outcome \in CallOutcomes :
       LET ok == outcome = "ok" /\ NodeColumns \subseteq script.statuses_df.columns IN
       /\ script' = IF ok
                    THEN [script EXCEPT
                            !.nodes_df = NodesDf(script.statuses_df),
                            !.graph = EmptyGraph,
                            !.cursor = 0,
                            !.pc = IF NodesDf(script.statuses_df) = <<>>
                                   THEN "fetch_friends" ELSE "nodes_loop"]
                    ELSE [script EXCEPT !.pc = "failed"]
       /\ Did(IF ok THEN "DiGraph" ELSE "nodes_df")
  /\ UNCHANGED <<warehouse, local_files, bucket>>

\* one iteration of the nodes loop (lines 92-97)
add_node ==
  /\ script.pc = "nodes_loop"
  /\ \E outcome \in CallOutcomes :
       script' = IF outcome = "error" THEN [script EXCEPT !.pc = "failed"]
                 ELSE [script EXCEPT
                         !.graph = AddNode(@, script.nodes_df[script.cursor + 1].screen_name),
                         !.cursor = @ + 1,
                         !.pc = IF script.cursor + 1 < Len(script.nodes_df)
                                THEN "nodes_loop" ELSE "fetch_friends"]
  /\ Did("add_node")
  /\ UNCHANGED <<warehouse, local_files, bucket>>

\* the friends query is issued (lines 100-102)
fetch_daily_active_user_friends ==
  /\ script.pc = "fetch_friends"
  /\ \E outcome \in CallOutcomes :
       script' = [script EXCEPT
         !.cursor = 0,
         !.pc = IF outcome = "error" THEN "failed"
                ELSE IF warehouse.friends = <<>> THEN "write_gpickle" ELSE "edges_loop"]
  /\ Did("fetch_friends")
  /\ UNCHANGED <<warehouse, local_files, bucket>>

\* one iteration of the edges loop (lines 102-107)
add_edges_from ==
  /\ script.pc = "edges_loop"
  /\ \E outcome \in CallOutcomes :
       script' = IF outcome = "error" THEN [script EXCEPT !.pc = "failed"]
                 ELSE [script EXCEPT
                         !.graph = AddEdgesFrom(@, RowEdges(warehouse.friends[script.cursor + 1])),
                         !.cursor = @ + 1,
                         !.pc = IF script.cursor + 1 < Len(warehouse.friends)
                                THEN "edges_loop" ELSE "write_gpickle"]
  /\ Did("friends_row")
  /\ UNCHANGED <<warehouse, local_files, bucket>>

\* write_gpickle(graph, local_graph_filepath); del graph (lines 111-112)
write_gpickle ==
  /\ script.pc = "write_gpickle"
  /\ \E outcome \in WriteOutcomes :
       /\ local_files' = WriteFile(local_files, local_graph_filepath, script.graph, outcome)
       /\ script' = IF outcome = "ok"
                    THEN [script EXCEPT !.pc = "upload_file", !.graph = EmptyGraph]
                    ELSE [script EXCEPT !.pc = "failed"]
  /\ Did("write_gpickle")
  /\ UNCHANGED <<warehouse, bucket>>

\* storage.upload_file(local_graph_filepath, gcs_graph_filepath) (line 113)
upload_file ==
  /\ script.pc = "upload_file"
  /\ \E outcome \in CallOutcomes :
       LET ok == outcome = "ok" /\ local_graph_filepath \in DOMAIN local_files IN
       /\ bucket' = IF ok THEN Put(bucket, gcs_graph_filepath, local_files[local_graph_filepath])
                    ELSE bucket
       /\ script' = [script EXCEPT !.pc = IF ok THEN "done" ELSE "failed"]
  /\ Did("upload_file")
  /\ UNCHANGED <<warehouse, local_files>>

InitDaily ==
  /\ warehouse \in [statuses : SeqsUpTo(StatusValues, MaxStatuses),
                    friends : SeqsUpTo(RowValues, MaxFriendRows)]
  /\ script = [pc |-> "idle", runs |-> 0]
  /\ run = [events |-> <<>>, local_before |-> <<>>, bucket_before |-> <<>>]
  /\ local_files = <<>>
  /\ bucket = <<>>
  /\ table = <<>>
  /\ now = 0
  /\ grapher = <<>>
  /\ trace = <<>>
  /\ batching = <<>>
  /\ analyzer = <<>>

NextDaily ==
  /\ UNCHANGED <<grapherVars, callVars>>
  /\ \/ run_script
     \/ load_tweets
     \/ download_tweets
     \/ append_status
     \/ to_csv
     \/ load_graph
     \/ create_graph
     \/ add_node
     \/ fetch_daily_active_user_friends
     \/ add_edges_from
     \/ write_gpickle
     \/ upload_file

\* runs of the daily script, one after the other, on one disk and bucket
SpecDaily == InitDaily /\ [][NextDaily]_vars

\* ------------------------------------------------------------------------
\* split_into_batches (friend_collection/batch_per_thread.py)
\* ------------------------------------------------------------------------

Min(a, b) == IF a < b THEN a ELSE b

Items == {0, 1}

\* a batch whose end index is taken inclusive: n + 1 elements
BatchAtInclusive(xs, n, i) == SubSeq(xs, i + 1, Min(i + n + 1, Len(xs)))

\* the batch that starts after the first i elements: the next n elements, or
\* the shorter remainder
BatchAt(xs, n, i) == SubSeq(xs, i + 1, Min(i + n, Len(xs)))

\* split_into_batches(xs, n) is called: a generator over xs
split_into_batches ==
  /\ batching.pc = "call"
  /\ batching' = [batching EXCEPT
       !.i = 0, !.batches = <<>>,
       !.pc = IF Len(batching.xs) = 0 THEN "exhausted" ELSE "yield"]
  /\ UNCHANGED analyzer

\* the generator yields its next batch
next_batch ==
  /\ batching.pc = "yield"
  /\ batching' = [batching EXCEPT
       !.batches = Append(@, BatchAt(batching.xs, batching.n, batching.i)),
       !.i = @ + batching.n,
       !.pc = IF batching.i + batching.n < Len(batching.xs) THEN "yield" ELSE "exhausted"]
  /\ UNCHANGED analyzer

InitBatches ==
  /\ batching \in [xs : SeqsUpTo(Items, MaxListLen), n : 1..MaxBatch,
                   i : {0}, batches : {<<>>}, pc : {"call"}]
  /\ analyzer = <<>>
  /\ warehouse = [statuses |-> <<>>, friends |-> <<>>]
  /\ script = [pc |-> "off"]
  /\ run = <<>>
  /\ local_files = <<>>
  /\ bucket = <<>>
  /\ table = <<>>
  /\ now = 0
  /\ grapher = <<>>
  /\ trace = <<>>

NextBatches ==
  /\ UNCHANGED <<grapherVars, dailyVars, local_files, bucket>>
  /\ \/ split_into_batches
     \/ next_batch

\* calls of split_into_batches
SpecBatches == InitBatches /\ [][NextBatches]_vars

\* ------------------------------------------------------------------------
\* RetweetsAnalyzer (bot_communities/retweet_analyzer.py)
\* ------------------------------------------------------------------------

\* the screen names, in the order groupby sorts them
ScreenNames == <<"u1", "u2", "u3">>

StatusIds == {1, 2}

RetweetValues ==
  [retweeted_user_screen_name : Range(ScreenNames), status_id : StatusIds]

\* agg({"status_id": ["nunique"]}) for one group
NUnique(df, name) ==
  Cardinality({ df[i].status_id :
                  i \in { j \in 1..Len(df) : df[j].retweeted_user_screen_name = name } })

\* groupby("retweeted_user_screen_name"): the names that occur, sorted
RECURSIVE GroupKeys(_, _)
GroupKeys(df, k) ==
  IF k > Len(ScreenNames) THEN <<>>
  ELSE IF \E i \in 1..Len(df) : df[i].retweeted_user_screen_name = ScreenNames[k]
       THEN <<ScreenNames[k]>> \o GroupKeys(df, k + 1)
       ELSE GroupKeys(df, k + 1)

\* RetweetsAnalyzer.most_retweets_df
most_retweets_df(df) ==
  LET keys == GroupKeys(df, 1) IN
  [i \in 1..Len(keys) |->
     [RetweetedUser |-> keys[i], RetweetCount |-> NUnique(df, keys[i])]]

Reorderings(rows) ==
  { [i \in 1..Len(rows) |-> rows[f[i]]] :
      f \in { g \in [1..Len(rows) -> 1..Len(rows)] :
                \A a \in 1..Len(rows) : \A b \in 1..Len(rows) : g[a] = g[b] => a = b } }

\* sort_values("Retweet Count", ascending): the sort is not stable, rows with
\* equal counts come out in any order
SortValues(rows, ascending) ==
  { s \in Reorderings(rows) :
      \A i \in 1..Len(s) : \A j \in 1..Len(s) :
        i < j => IF ascending THEN s[i].RetweetCount <= s[j].RetweetCount
                 ELSE s[i].RetweetCount >= s[j].RetweetCount }

\* a slice that takes the last rows
TakeLast(rows, top_n) == SubSeq(rows, Len(rows) - Min(top_n, Len(rows)) + 1, Len(rows))

\* chart_df[:top_n] for top_n >= 0
TakeTop(rows, top_n) == SubSeq(rows, 1, Min(top_n, Len(rows)))

\* RetweetsAnalyzer.generate_most_retweets_chart(top_n)
generate_most_retweets_chart ==
  /\ analyzer.pc = "ready"
  /\ \E sorted \in SortValues(most_retweets_df(analyzer.community_retweets_df), FALSE) :
       \E chart_df \in SortValues(TakeTop(sorted, analyzer.top_n), TRUE) :
         analyzer' = [analyzer EXCEPT !.chart = chart_df, !.pc = "charted"]
  /\ UNCHANGED batching

InitChart ==
  /\ analyzer \in [community_retweets_df : SeqsUpTo(RetweetValues, MaxRetweets),
                   top_n : 0..MaxTopN, chart : {<<>>}, pc : {"ready"}]
  /\ batching = <<>>
  /\ warehouse = [statuses |-> <<>>, friends |-> <<>>]
  /\ script = [pc |-> "off"]
  /\ run = <<>>
  /\ local_files = <<>>
  /\ bucket = <<>>
  /\ table = <<>>
  /\ now = 0
  /\ grapher = <<>>
  /\ trace = <<>>

NextChart ==
  /\ UNCHANGED <<grapherVars, dailyVars, local_files, bucket>>
  /\ generate_most_retweets_chart

\* charts of the most retweeted users
SpecChart == InitChart /\ [][NextChart]_vars

\* ------------------------------------------------------------------------
\* Properties of BigQueryListGrapher.perform
\* ------------------------------------------------------------------------

Occurrences(events, step) == Cardinality({ i \in 1..Len(events) : events[i] = step })

OnceOnlySteps ==
  { "write_metadata", "upload_metadata", "fetch", "write_results", "upload_results",
    "write_edges", "upload_edges", "construct_graph", "write_graph", "upload_graph" }

AttemptedAtMostOnce ==
  \A p \in DOMAIN grapher : \A step \in OnceOnlySteps :
    Occurrences(trace[p].events, step) <= 1

HaltedStaysHalted ==
  \A p \in DOMAIN grapher :
    grapher[p].pc = "failed" =>
      /\ grapher'[p] = grapher[p]
      /\ trace'[p] = trace[p]
      /\ (DOMAIN grapher = {p} => local_files' = local_files /\ bucket' = bucket)

\* C4: a failed step of perform halts the run: once a step has raised, the
\* process takes no further step and changes nothing, and every write, upload
\* and fetch step is attempted at most once in a run (no retry).
C4_FailureHalts == [](AttemptedAtMostOnce) /\ [][HaltedStaysHalted]_vars

\* a run that failed at the upload of the results, after three steps succeeded
C4_Witness ==
  /\ grapher[1].pc = "failed"
  /\ Len(trace[1].events) >= 5
  /\ trace[1].events[Len(trace[1].events)] = "upload_results"
  /\ "results.csv" \notin trace[1].uploaded

\* C5: with dry_run true no graph object is constructed during the run.
C5_DryRunBuildsNoGraph ==
  \A p \in DOMAIN grapher :
    grapher[p].dry_run =>
      /\ "graph" \notin grapher[p].attrs
      /\ Occurrences(trace[p].events, "construct_graph") = 0

EdgesWritten(p) == trace[p].wrote["edges.gpickle"]

\* C6: two completed runs over the same rows with the same dry_run end with the
\* same counter, the same edges list in the edges file and the same graph,
\* whatever their batch sizes are.
C6_BatchSizeOnlyReporting ==
  (/\ DOMAIN grapher = {1, 2}
   /\ grapher[1].pc = "done" /\ grapher[2].pc = "done"
   /\ grapher[1].dry_run = grapher[2].dry_run)
  => /\ grapher[1].counter = grapher[2].counter
     /\ EdgesWritten(1) = EdgesWritten(2)
     /\ grapher[1].graph = grapher[2].graph
     /\ trace[1].wrote["graph.gpickle"] = trace[2].wrote["graph.gpickle"]

\* two completed runs with different batch sizes and different results
C6_Witness ==
  /\ DOMAIN grapher = {1, 2}
  /\ grapher[1].pc = "done" /\ grapher[2].pc = "done"
  /\ ~ grapher[1].dry_run /\ ~ grapher[2].dry_run
  /\ grapher[1].batch_size # grapher[2].batch_size
  /\ trace[1].wrote["results.csv"] # trace[2].wrote["results.csv"]
  /\ EdgesWritten(1) # << <<>> >>

ResultsWellFormed(self) ==
  LET rr == self.running_results IN
  /\ Len(rr) = self.cursor \div self.batch_size
  /\ \A i \in 1..Len(rr) : rr[i].counter = i * self.batch_size
  /\ \A i \in 1..Len(rr) : \A j \in 1..Len(rr) :
       i < j => rr[i].counter < rr[j].counter /\ rr[i].edges <= rr[j].edges

\* C7: while the loop runs and until running_results is deleted, after k rows
\* have been processed running_results has floor(k / batch_size) entries, the
\* i-th with counter i * batch_size, counters increasing, edges non-decreasing.
C7_ReportEveryBatch ==
  \A p \in DOMAIN grapher :
    ("running_results" \in grapher[p].attrs /\ grapher[p].batch_size >= 1)
    => /\ grapher[p].counter = grapher[p].cursor
       /\ ResultsWellFormed(grapher[p])

\* two reports have been recorded, the second with more edges than the first
C7_Witness ==
  /\ Len(grapher[1].running_results) = 2
  /\ grapher[1].running_results[1].edges < grapher[1].running_results[2].edges

WrittenBy(p) ==
  { Path(grapher[p].job_id, a) : a \in DOMAIN trace[p].wrote }

UploadedBy(p) ==
  { Path(grapher[p].job_id, a) : a \in trace[p].uploaded }

\* C8: no local file path and no bucket object path is written by two
\* grapher processes.
C8_OneWriterPerPath ==
  \A p \in DOMAIN grapher : \A q \in DOMAIN grapher :
    p # q => /\ WrittenBy(p) \cap WrittenBy(q) = {}
             /\ UploadedBy(p) \cap UploadedBy(q) = {}

Rows(n) == [i \in 1..n |-> "row"]

CompletedRun(n) ==
  << "start", "write_metadata", "upload_metadata", "fetch" >> \o Rows(n) \o
  << "write_results", "upload_results", "write_edges", "upload_edges",
     "construct_graph", "write_graph", "upload_graph", "end" >>

Position(events, step) == CHOOSE i \in 1..Len(events) : events[i] = step

Precedes(events, a, b) ==
  Occurrences(events, b) > 0 =>
    /\ Occurrences(events, a) > 0
    /\ Position(events, a) < Position(events, b)

\* C10: a completed run of perform is: write and upload metadata, fetch of all
\* rows, write and upload results, write and upload edges, construct graph,
\* write and upload graph, end; and in every run each upload comes after the
\* local write of the same artifact, the edges write before the construction.
C10_OrderOfPerform ==
  \A p \in DOMAIN grapher :
    LET ev == trace[p].events IN
    /\ grapher[p].pc = "done" => ev = CompletedRun(Len(table))
    /\ Precedes(ev, "write_metadata", "upload_metadata")
    /\ Precedes(ev, "write_results", "upload_results")
    /\ Precedes(ev, "write_edges", "upload_edges")
    /\ Precedes(ev, "write_graph", "upload_graph")
    /\ Precedes(ev, "write_edges", "construct_graph")
    /\ \A a \in trace[p].uploaded : a \in DOMAIN trace[p].wrote

\* a completed run over two rows
C10_Witness ==
  /\ grapher[1].pc = "done"
  /\ Len(table) = 2
  /\ trace[1].uploaded = Artifacts

\* the pairs (screen_name, friend) of the first k rows, in row order
RECURSIVE EdgesOfRows(_, _)
EdgesOfRows(rows, k) ==
  IF k = 0 THEN <<>>
  ELSE EdgesOfRows(rows, k - 1) \o
       [i \in 1..Len(rows[k].friend_names) |->
          <<rows[k].screen_name, rows[k].friend_names[i]>>]

RECURSIVE FriendsOfRows(_, _)
FriendsOfRows(rows, k) ==
  IF k = 0 THEN 0 ELSE FriendsOfRows(rows, k - 1) + Len(rows[k].friend_names)

LoopIsOver(p) ==
  grapher[p].pc \in {"write_results", "upload_results", "write_edges", "upload_edges",
                     "construct_graph", "write_graph", "upload_graph", "end", "done"}

\* C11: the counter that end() reports is the number of rows fetched: it is 0
\* after start and grows by one with each fetched row, with dry_run or without;
\* without dry_run the edges list at the end of the loop is, in row order, the
\* pairs (screen_name, friend) of the rows, as many as there are friend names;
\* with dry_run the edges list is empty for as long as it exists.
C11_CounterAndEdgesFollowRows ==
  \A p \in DOMAIN grapher :
    LET self == grapher[p] IN
    /\ ("counter" \in self.attrs /\ self.batch_size >= 1) => self.counter = self.cursor
    /\ (self.pc = "write_metadata" \/ self.pc = "upload_metadata") => self.counter = 0
    /\ LoopIsOver(p) => self.counter = Len(table)
    /\ ("edges" \in self.attrs /\ ~ self.dry_run /\ self.batch_size >= 1) =>
         /\ self.edges = EdgesOfRows(table, self.cursor)
         /\ Len(self.edges) = FriendsOfRows(table, self.cursor)
    /\ ("edges" \in self.attrs /\ ~ self.dry_run /\ LoopIsOver(p)) =>
         self.edges = EdgesOfRows(table, Len(table))
    /\ ("edges.gpickle" \in DOMAIN trace[p].wrote /\ trace[p].wrote["edges.gpickle"] # <<>>) =>
         trace[p].wrote["edges.gpickle"] =
           << IF self.dry_run THEN <<>> ELSE EdgesOfRows(table, Len(table)) >>
    /\ self.dry_run => self.edges = <<>>

\* a run over two rows, without dry_run, at its end: two users, three edges
C11_Witness ==
  /\ grapher[1].pc = "done"
  /\ ~ grapher[1].dry_run
  /\ grapher[1].counter = 2
  /\ Len(trace[1].wrote["edges.gpickle"][1]) = 3

\* a dry run over two rows at the end of its loop: two users, no edges
C11_DryWitness ==
  /\ grapher[1].pc = "write_results"
  /\ grapher[1].dry_run
  /\ grapher[1].counter = 2
  /\ grapher[1].edges = <<>>

\* ------------------------------------------------------------------------
\* Properties of the daily active user friend grapher
\* ------------------------------------------------------------------------

Happened(event) == Occurrences(run.events, event)

\* graph.gpickle existed when the run began and GRAPH_DESTRUCTIVE is false
GraphLoadCase ==
  local_graph_filepath \in DOMAIN run.local_before /\ ~ script.GRAPH_DESTRUCTIVE

\* tweets.csv existed when the run began and DESTRUCTIVE is false
TweetsLoadCase ==
  tweets_csv_filepath \in DOMAIN run.local_before /\ ~ script.DESTRUCTIVE

\* the graph of the statuses' users and of the friends rows
BuiltGraph ==
  LET users == { script.statuses_df.rows[i].screen_name :
                   i \in 1..Len(script.statuses_df.rows) }
      links == UNION { Range(RowEdges(warehouse.friends[i])) :
                         i \in 1..Len(warehouse.friends) }
  IN [nodes |-> users \cup { e[1] : e \in links } \cup { e[2] : e \in links },
      edges |-> links]

GraphBuildEvents ==
  {"DiGraph", "add_node", "fetch_friends", "friends_row", "write_gpickle", "upload_file"}

\* C1: the run builds the graph (new DiGraph, friends fetch, graph.gpickle
\* written and uploaded) exactly when graph.gpickle did not exist or
\* GRAPH_DESTRUCTIVE is true; otherwise it only reads the file: the local file
\* and the bucket stay as they were and no friends fetch is issued.
C1_GraphBuiltIffMissingOrDestructive ==
  script.runs > 0 =>
    /\ GraphLoadCase =>
         /\ \A e \in GraphBuildEvents : Happened(e) = 0
         /\ local_graph_filepath \in DOMAIN local_files
         /\ local_files[local_graph_filepath] = run.local_before[local_graph_filepath]
         /\ bucket = run.bucket_before
    /\ ~ GraphLoadCase => Happened("read_gpickle") = 0
    /\ script.pc = "done" =>
         IF GraphLoadCase
         THEN /\ Happened("read_gpickle") = 1
              /\ << script.graph >> = local_files[local_graph_filepath]
         ELSE /\ \A e \in {"DiGraph", "fetch_friends", "write_gpickle", "upload_file"} :
                   Happened(e) = 1
              /\ Happened("friends_row") = Len(warehouse.friends)
              /\ local_files[local_graph_filepath] = << BuiltGraph >>
              /\ bucket[gcs_graph_filepath] = << BuiltGraph >>

\* a second run that found the graph file of the first and only loaded it
C1_Witness ==
  /\ script.runs = 2
  /\ script.pc = "done"
  /\ GraphLoadCase
  /\ script.graph.edges # {}
  /\ Happened("read_gpickle") = 1

TweetsStageOver ==
  script.pc \in {"graph", "nodes_loop", "fetch_friends", "edges_loop",
                 "write_gpickle", "upload_file", "done"}

\* C2: the run downloads the tweets and writes tweets.csv exactly when
\* tweets.csv did not exist or DESTRUCTIVE is true; otherwise the statuses are
\* read from the file, no status fetch is issued and tweets.csv is unchanged.
C2_TweetsDownloadedIffMissingOrDestructive ==
  script.runs > 0 =>
    /\ TweetsLoadCase =>
         /\ \A e \in {"fetch_statuses", "status_row", "to_csv"} : Happened(e) = 0
         /\ tweets_csv_filepath \in DOMAIN local_files
         /\ local_files[tweets_csv_filepath] = run.local_before[tweets_csv_filepath]
    /\ ~ TweetsLoadCase => Happened("read_csv") = 0
    /\ TweetsStageOver =>
         IF TweetsLoadCase
         THEN /\ Happened("read_csv") = 1
              /\ script.statuses_df.rows = run.local_before[tweets_csv_filepath][1].rows
         ELSE /\ Happened("fetch_statuses") = 1
              /\ Happened("status_row") = Len(warehouse.statuses)
              /\ Happened("to_csv") = 1
              /\ local_files[tweets_csv_filepath][1].rows = warehouse.statuses
              /\ script.statuses_df.rows = warehouse.statuses

\* a second run that read the statuses from the tweets.csv of the first
C2_Witness ==
  /\ script.runs = 2
  /\ script.pc = "graph"
  /\ TweetsLoadCase
  /\ Len(script.statuses_df.rows) = 2
  /\ Happened("read_csv") = 1

\* ------------------------------------------------------------------------
\* Properties of split_into_batches and of the most retweets chart
\* ------------------------------------------------------------------------

RECURSIVE Concat(_)
Concat(seqs) == IF seqs = <<>> THEN <<>> ELSE Head(seqs) \o Concat(Tail(seqs))

CeilDiv(a, b) == (a + b - 1) \div b

\* C3: for a list xs and n >= 1 the batches of split_into_batches(xs, n),
\* concatenated in order, are xs; every batch but the last has n elements, the
\* last has 1 to n, so there are ceil(len(xs) / n) batches and none is empty.
C3_BatchesPartitionTheList ==
  (batching # <<>> /\ batching.pc = "exhausted") =>
    LET bs == batching.batches IN
    /\ Concat(bs) = batching.xs
    /\ \A k \in 1..Len(bs) - 1 : Len(bs[k]) = batching.n
    /\ Len(bs) > 0 => Len(bs[Len(bs)]) \in 1..batching.n
    /\ Len(bs) = CeilDiv(Len(batching.xs), batching.n)

\* four elements in batches of three: a full batch and a remainder of one
C3_Witness ==
  /\ batching # <<>>
  /\ batching.pc = "exhausted"
  /\ batching.n = 3
  /\ Len(batching.xs) = 4
  /\ Len(batching.batches) = 2
  /\ Len(batching.batches[2]) = 1

RetweetedUsers(df) == { df[i].retweeted_user_screen_name : i \in 1..Len(df) }

StatusesOf(df, name) ==
  { r.status_id : r \in { q \in Range(df) : q.retweeted_user_screen_name = name } }

\* C9: the chart of generate_most_retweets_chart(top_n) has one row for each of
\* min(top_n, number of retweeted users) users, the Retweet Count of a row is
\* the number of distinct status ids among the retweets of its user, no user
\* left out has a larger count than a charted one, and the rows are in
\* ascending order of Retweet Count.
C9_ChartOfTopRetweetedUsers ==
  (analyzer # <<>> /\ analyzer.pc = "charted") =>
    LET df == analyzer.community_retweets_df
        chart == analyzer.chart
        charted == { chart[i].RetweetedUser : i \in 1..Len(chart) }
    IN
    /\ Len(chart) = Min(analyzer.top_n, Cardinality(RetweetedUsers(df)))
    /\ Cardinality(charted) = Len(chart)
    /\ charted \subseteq RetweetedUsers(df)
    /\ \A i \in 1..Len(chart) :
         chart[i].RetweetCount = Cardinality(StatusesOf(df, chart[i].RetweetedUser))
    /\ \A i \in 1..Len(chart) : \A u \in RetweetedUsers(df) \ charted :
         chart[i].RetweetCount >= Cardinality(StatusesOf(df, u))
    /\ \A i \in 1..Len(chart) : \A j \in 1..Len(chart) :
         i < j => chart[i].RetweetCount <= chart[j].RetweetCount

\* a chart of one of two users, the one with two retweeted statuses
C9_Witness ==
  /\ analyzer # <<>>
  /\ analyzer.pc = "charted"
  /\ analyzer.top_n = 1
  /\ Cardinality(RetweetedUsers(analyzer.community_retweets_df)) = 2
  /\ Len(analyzer.chart) = 1
  /\ analyzer.chart[1].RetweetCount = 2

\* ------------------------------------------------------------------------
\* The graph file of the daily active user friend grapher as a checkpoint
\* ------------------------------------------------------------------------

\* the graph with every user of the statuses and every friends row
CompleteGraph ==
  LET users == { warehouse.statuses[i].screen_name : i \in 1..Len(warehouse.statuses) }
      links == UNION { { << warehouse.friends[i].screen_name,
                            warehouse.friends[i].friend_names[k] >> :
                           k \in 1..Len(warehouse.friends[i].friend_names) } :
                       i \in 1..Len(warehouse.friends) }
  IN [nodes |-> users \cup { e[1] : e \in links } \cup { e[2] : e \in links },
      edges |-> links]

LastEvent == IF run.events = <<>> THEN "none" ELSE run.events[Len(run.events)]

\* graph.gpickle is written only after all node rows and all friends rows
WrittenAfterTheLoops ==
  Happened("write_gpickle") > 0 =>
    /\ Happened("add_node") = Cardinality(CompleteGraph.nodes \cap
         { warehouse.statuses[i].screen_name : i \in 1..Len(warehouse.statuses) })
    /\ Happened("friends_row") = Len(warehouse.friends)
    /\ \A i \in 1..Len(run.events) :
         run.events[i] \in {"add_node", "fetch_friends", "friends_row"} =>
           i < Position(run.events, "write_gpickle")

\* a run that failed in the node loop or in the edge fetch loop wrote and
\* uploaded no graph file
NothingWrittenWhenLoopFails ==
  (script.pc = "failed" /\ LastEvent \in {"add_node", "fetch_friends", "friends_row"}) =>
    /\ Happened("write_gpickle") = 0
    /\ Happened("upload_file") = 0
    /\ (local_graph_filepath \in DOMAIN local_files) =
         (local_graph_filepath \in DOMAIN run.local_before)
    /\ local_graph_filepath \in DOMAIN local_files =>
         local_files[local_graph_filepath] = run.local_before[local_graph_filepath]
    /\ bucket = run.bucket_before

\* a run that loaded the graph file holds the complete graph
LoadedGraphIsComplete ==
  (script.pc = "done" /\ Happened("read_gpickle") = 1) => script.graph = CompleteGraph

UploadedGraphIsComplete ==
  gcs_graph_filepath \in DOMAIN bucket => bucket[gcs_graph_filepath] = << CompleteGraph >>

\* C12, as stated: whenever graph.gpickle exists it is the completely built
\* graph; it is written only after every node row and every friends row was
\* added, a run that fails in one of the loops writes and uploads nothing,
\* and a later run never loads a partially built graph.
C12_GraphFileOnlyEverComplete ==
  script.runs > 0 =>
    /\ local_graph_filepath \in DOMAIN local_files =>
         local_files[local_graph_filepath] = << CompleteGraph >>
    /\ WrittenAfterTheLoops
    /\ NothingWrittenWhenLoopFails
    /\ LoadedGraphIsComplete
    /\ UploadedGraphIsComplete

\* C12, amended: whenever graph.gpickle exists it is the completely built
\* graph or a file that a failed write_gpickle left truncated, which no run
\* can load; the rest as stated.
C12_GraphFileCompleteOrTruncated ==
  script.runs > 0 =>
    /\ local_graph_filepath \in DOMAIN local_files =>
         local_files[local_graph_filepath] \in { <<>>, << CompleteGraph >> }
    /\ WrittenAfterTheLoops
    /\ NothingWrittenWhenLoopFails
    /\ LoadedGraphIsComplete
    /\ UploadedGraphIsComplete

\* a second run, GRAPH_DESTRUCTIVE false, that found the truncated file of
\* the first and failed to read it
C12_Witness ==
  /\ script.runs = 2
  /\ script.pc = "failed"
  /\ ~ script.GRAPH_DESTRUCTIVE
  /\ LastEvent = "read_gpickle"
  /\ local_graph_filepath \in DOMAIN local_files
  /\ local_files[local_graph_filepath] = <<>>

\* a run that failed in the edge loop after its nodes were added: no file
C12_LoopFailureWitness ==
  /\ script.runs = 1
  /\ script.pc = "failed"
  /\ LastEvent = "friends_row"
  /\ Happened("add_node") = 2
  /\ local_graph_filepath \notin DOMAIN local_files

====
